---- MODULE Spec2Model ----
(***************************************************************************)
(* Capacity-aware nearest-hospital routing: the Graph class of graph.py    *)
(* (adjacency lists, hospital occupancy, Dijkstra, nearest available       *)
(* hospital, path details) and the sample grid map of example_usage.py.    *)
(*                                                                         *)
(* Edge weights are integers.  The sample map's weights 2 and 1.4 are kept *)
(* in tenths (20 and 14), so a distance of 3.4 reads 34.                   *)
(***************************************************************************)
EXTENDS Integers, Sequences, FiniteSets, TLC

VARIABLES graph, node_positions, hospitals, op, args, ret, assigned

vars == <<graph, node_positions, hospitals, op, args, ret, assigned>>

-----------------------------------------------------------------------------
(* Values *)

\* float('infinity'): larger than every finite path cost of the model.
Infinity == 1000000

\* Python's None, for node ids and return values.
None == "None"

\* The node ids of the sample map in Python's str order, followed by an id
\* that no map declares.  heapq compares (distance, node) tuples, so equal
\* distances are ordered by node id.
NodeOrder ==
    <<"A", "B", "C", "D", "E", "F", "G", "H", "H1", "H2", "H3",
      "I", "J", "K", "L", "Z">>

Rank(n) == CHOOSE i \in 1..Len(NodeOrder) : NodeOrder[i] = n

\* (d1, n1) <= (d2, n2) as Python compares tuples.
TupleLeq(e, f) == e[1] < f[1] \/ (e[1] = f[1] /\ Rank(e[2]) <= Rank(f[2]))

\* The empty dict.
EmptyMap == <<>>

-----------------------------------------------------------------------------
(* Graph.__init__, add_node, add_edge: pure versions on a state record     *)
(* [graph, node_positions, hospitals].  graph maps a node id to its list   *)
(* of <<neighbor, distance>>; hospitals is the insertion-ordered dict, a   *)
(* sequence of [id, capacity, max_capacity].                               *)

EmptyGraph == [graph |-> EmptyMap, node_positions |-> EmptyMap, hospitals |-> <<>>]

\* dict[key] = value, for a key that may be new.
Put(m, k, v) == [x \in (DOMAIN m) \cup {k} |-> IF x = k THEN v ELSE m[x]]

HospitalIds(hs) == {hs[i].id : i \in 1..Len(hs)}

HospitalIndex(hs, id) == CHOOSE i \in 1..Len(hs) : hs[i].id = id

\* Variant: the capacity passed is stored as the current occupancy too.
AddNode_StartsFull(g, node_id, x, y, is_hospital, capacity) ==
    IF node_id \notin DOMAIN g.graph
    THEN [graph |-> Put(g.graph, node_id, <<>>),
          node_positions |-> Put(g.node_positions, node_id, <<x, y>>),
          hospitals |->
              IF is_hospital
              THEN Append(g.hospitals,
                          [id |-> node_id, capacity |-> capacity,
                           max_capacity |-> capacity])
              ELSE g.hospitals]
    ELSE g

\* Variant: an existing id is declared afresh (no membership test).
AddNode_Overwrite(g, node_id, x, y, is_hospital, capacity) ==
    LET others == SelectSeq(g.hospitals, LAMBDA h : h.id # node_id)
    IN [graph |-> Put(g.graph, node_id, <<>>),
        node_positions |-> Put(g.node_positions, node_id, <<x, y>>),
        hospitals |->
            IF is_hospital
            THEN Append(others,
                        [id |-> node_id, capacity |-> 0, max_capacity |-> capacity])
            ELSE others]

\* Variant: the position is stored before the membership test.
AddNode_MovePosition(g, node_id, x, y, is_hospital, capacity) ==
    IF node_id \notin DOMAIN g.graph
    THEN [graph |-> Put(g.graph, node_id, <<>>),
          node_positions |-> Put(g.node_positions, node_id, <<x, y>>),
          hospitals |->
              IF is_hospital
              THEN Append(g.hospitals,
                          [id |-> node_id, capacity |-> 0, max_capacity |-> capacity])
              ELSE g.hospitals]
    ELSE [g EXCEPT !.node_positions = Put(g.node_positions, node_id, <<x, y>>)]

AddNode(g, node_id, x, y, is_hospital, capacity) ==
    IF node_id \notin DOMAIN g.graph
    THEN [graph |-> Put(g.graph, node_id, <<>>),
          node_positions |-> Put(g.node_positions, node_id, <<x, y>>),
          hospitals |->
              IF is_hospital
              THEN Append(g.hospitals,
                          [id |-> node_id, capacity |-> 0, max_capacity |-> capacity])
              ELSE g.hospitals]
    ELSE g

\* Variant: the entry is appended without looking for an earlier one.
SetNeighbor_Append(lst, to_node, distance) ==
    Append(lst, <<to_node, distance>>)

\* for i, (neighbor, _) in enumerate(lst): replace the first entry for
\* to_node, else append.
SetNeighbor(lst, to_node, distance) ==
    IF \E i \in 1..Len(lst) : lst[i][1] = to_node
    THEN LET i == CHOOSE j \in 1..Len(lst) :
                      /\ lst[j][1] = to_node
                      /\ \A k \in 1..(j - 1) : lst[k][1] # to_node
         IN [lst EXCEPT ![i] = <<to_node, distance>>]
    ELSE Append(lst, <<to_node, distance>>)

\* Variant: the reverse entry is not stored.
AddEdge_OneWay(g, from_node, to_node, distance) ==
    IF from_node \in DOMAIN g.graph /\ to_node \in DOMAIN g.graph
    THEN [g EXCEPT !.graph[from_node] = SetNeighbor(@, to_node, distance)]
    ELSE g

\* Variant: a missing endpoint gets an adjacency list (setdefault) instead
\* of the call being skipped.
AddEdge_Setdefault(g, from_node, to_node, distance) ==
    LET g0 == IF from_node \in DOMAIN g.graph THEN g.graph
              ELSE Put(g.graph, from_node, <<>>)
        g1 == IF to_node \in DOMAIN g0 THEN g0 ELSE Put(g0, to_node, <<>>)
        g2 == [g1 EXCEPT ![from_node] = SetNeighbor(@, to_node, distance)]
        g3 == [g2 EXCEPT ![to_node] = SetNeighbor(@, from_node, distance)]
    IN [g EXCEPT !.graph = g3]

AddEdge(g, from_node, to_node, distance) ==
    IF from_node \in DOMAIN g.graph /\ to_node \in DOMAIN g.graph
    THEN LET g1 == [g.graph EXCEPT
                        ![from_node] = SetNeighbor(@, to_node, distance)]
             g2 == [g1 EXCEPT ![to_node] = SetNeighbor(@, from_node, distance)]
         IN [g EXCEPT !.graph = g2]
    ELSE g

-----------------------------------------------------------------------------
(* get_available_hospitals, update_hospital_capacity *)

\* Variant: a full hospital counts as available (<= for <).
RECURSIVE AvailableFrom_Leq(_, _)
AvailableFrom_Leq(hs, i) ==
    IF i > Len(hs) THEN <<>>
    ELSE IF hs[i].capacity <= hs[i].max_capacity
         THEN <<hs[i].id>> \o AvailableFrom_Leq(hs, i + 1)
         ELSE AvailableFrom_Leq(hs, i + 1)

\* Variant: the list is built back to front.
RECURSIVE AvailableFrom_Reversed(_, _)
AvailableFrom_Reversed(hs, i) ==
    IF i > Len(hs) THEN <<>>
    ELSE IF hs[i].capacity < hs[i].max_capacity
         THEN AvailableFrom_Reversed(hs, i + 1) \o <<hs[i].id>>
         ELSE AvailableFrom_Reversed(hs, i + 1)

RECURSIVE AvailableFrom(_, _)
AvailableFrom(hs, i) ==
    IF i > Len(hs) THEN <<>>
    ELSE IF hs[i].capacity < hs[i].max_capacity
         THEN <<hs[i].id>> \o AvailableFrom(hs, i + 1)
         ELSE AvailableFrom(hs, i + 1)

\* Variant: every hospital is listed, whatever its occupancy.
GetAvailableHospitals_All(hs) == [i \in 1..Len(hs) |-> hs[i].id]

GetAvailableHospitals(hs) == AvailableFrom(hs, 1)

\* Variant: the lower bound is strict, so the last patient is never released.
UpdateHospitalCapacity_StrictLower(hs, hospital_id, delta) ==
    IF hospital_id \in HospitalIds(hs)
    THEN LET i == HospitalIndex(hs, hospital_id)
             new_capacity == hs[i].capacity + delta
         IN IF 0 < new_capacity /\ new_capacity <= hs[i].max_capacity
            THEN [ok |-> TRUE,
                  hospitals |-> [hs EXCEPT ![i].capacity = new_capacity]]
            ELSE [ok |-> FALSE, hospitals |-> hs]
    ELSE [ok |-> FALSE, hospitals |-> hs]

\* Variant: the upper bound is not checked.
UpdateHospitalCapacity_NoUpperCheck(hs, hospital_id, delta) ==
    IF hospital_id \in HospitalIds(hs)
    THEN LET i == HospitalIndex(hs, hospital_id)
             new_capacity == hs[i].capacity + delta
         IN IF 0 <= new_capacity
            THEN [ok |-> TRUE,
                  hospitals |-> [hs EXCEPT ![i].capacity = new_capacity]]
            ELSE [ok |-> FALSE, hospitals |-> hs]
    ELSE [ok |-> FALSE, hospitals |-> hs]

\* Variant: a rejected update still stores the new occupancy.
UpdateHospitalCapacity_CommitFirst(hs, hospital_id, delta) ==
    IF hospital_id \in HospitalIds(hs)
    THEN LET i == HospitalIndex(hs, hospital_id)
             new_capacity == hs[i].capacity + delta
         IN [ok |-> 0 <= new_capacity /\ new_capacity <= hs[i].max_capacity,
             hospitals |-> [hs EXCEPT ![i].capacity = new_capacity]]
    ELSE [ok |-> FALSE, hospitals |-> hs]

\* [ok, hospitals]: the return value and the dict afterwards.
UpdateHospitalCapacity(hs, hospital_id, delta) ==
    IF hospital_id \in HospitalIds(hs)
    THEN LET i == HospitalIndex(hs, hospital_id)
             new_capacity == hs[i].capacity + delta
         IN IF 0 <= new_capacity /\ new_capacity <= hs[i].max_capacity
            THEN [ok |-> TRUE,
                  hospitals |-> [hs EXCEPT ![i].capacity = new_capacity]]
            ELSE [ok |-> FALSE, hospitals |-> hs]
    ELSE [ok |-> FALSE, hospitals |-> hs]

-----------------------------------------------------------------------------
(* dijkstra *)

\* heapq.heappop
HeapMin(pq) == CHOOSE e \in pq : \A f \in pq : TupleLeq(e, f)

\* Variant: an equal distance is stored and pushed again (<= for <).
RECURSIVE Relax_Leq(_, _, _, _, _)
Relax_Leq(nbrs, i, current_node, current_distance, st) ==
    IF i > Len(nbrs) THEN st
    ELSE LET neighbor == nbrs[i][1]
             weight == nbrs[i][2]
             distance == current_distance + weight
         IN IF distance <= st.distances[neighbor]
            THEN Relax_Leq(nbrs, i + 1, current_node, current_distance,
                       [distances |-> [st.distances EXCEPT ![neighbor] = distance],
                        predecessors |->
                            [st.predecessors EXCEPT ![neighbor] = current_node],
                        priority_queue |->
                            st.priority_queue \cup {<<distance, neighbor>>}])
            ELSE Relax_Leq(nbrs, i + 1, current_node, current_distance, st)

\* for neighbor, weight in self.graph[current_node]
RECURSIVE Relax(_, _, _, _, _)
Relax(nbrs, i, current_node, current_distance, st) ==
    IF i > Len(nbrs) THEN st
    ELSE LET neighbor == nbrs[i][1]
             weight == nbrs[i][2]
             distance == current_distance + weight
         IN IF distance < st.distances[neighbor]
            THEN Relax(nbrs, i + 1, current_node, current_distance,
                       [distances |-> [st.distances EXCEPT ![neighbor] = distance],
                        predecessors |->
                            [st.predecessors EXCEPT ![neighbor] = current_node],
                        priority_queue |->
                            st.priority_queue \cup {<<distance, neighbor>>}])
            ELSE Relax(nbrs, i + 1, current_node, current_distance, st)

\* Variant: an entry as good as the best known distance is skipped (>= for >).
RECURSIVE DijkstraLoop_SkipEqual(_, _)
DijkstraLoop_SkipEqual(g, st) ==
    IF st.priority_queue = {} THEN st
    ELSE LET top == HeapMin(st.priority_queue)
             current_distance == top[1]
             current_node == top[2]
             popped == [st EXCEPT !.priority_queue = @ \ {top}]
         IN IF current_distance >= st.distances[current_node]
            THEN DijkstraLoop_SkipEqual(g, popped)
            ELSE DijkstraLoop_SkipEqual(g, Relax(g[current_node], 1, current_node,
                                                 current_distance, popped))

\* while priority_queue
RECURSIVE DijkstraLoop(_, _)
DijkstraLoop(g, st) ==
    IF st.priority_queue = {} THEN st
    ELSE LET top == HeapMin(st.priority_queue)
             current_distance == top[1]
             current_node == top[2]
             popped == [st EXCEPT !.priority_queue = @ \ {top}]
         IN IF current_distance > st.distances[current_node]
            THEN DijkstraLoop(g, popped)
            ELSE DijkstraLoop(g, Relax(g[current_node], 1, current_node,
                                       current_distance, popped))

\* Variant: the start node is its own predecessor.
Dijkstra_SelfPredecessor(g, start_node) ==
    IF start_node \notin DOMAIN g
    THEN [distances |-> EmptyMap, predecessors |-> EmptyMap]
    ELSE LET st == DijkstraLoop(g,
                     [distances |->
                          [n \in DOMAIN g |-> IF n = start_node THEN 0 ELSE Infinity],
                      predecessors |->
                          [n \in DOMAIN g |-> IF n = start_node THEN n ELSE None],
                      priority_queue |-> {<<0, start_node>>}])
         IN [distances |-> st.distances, predecessors |-> st.predecessors]

Dijkstra(g, start_node) ==
    IF start_node \notin DOMAIN g
    THEN [distances |-> EmptyMap, predecessors |-> EmptyMap]
    ELSE LET st == DijkstraLoop(g,
                     [distances |->
                          [n \in DOMAIN g |-> IF n = start_node THEN 0 ELSE Infinity],
                      predecessors |-> [n \in DOMAIN g |-> None],
                      priority_queue |-> {<<0, start_node>>}])
         IN [distances |-> st.distances, predecessors |-> st.predecessors]

-----------------------------------------------------------------------------
(* find_nearest_available_hospital *)

\* Variant: the comparison is <=, so the last minimum wins and an
\* unreachable hospital (infinity <= infinity) is taken.
RECURSIVE Nearest_Leq(_, _, _, _, _)
Nearest_Leq(available, i, distances, nearest_hospital, min_distance) ==
    IF i > Len(available)
    THEN [nearest_hospital |-> nearest_hospital, min_distance |-> min_distance]
    ELSE LET hospital == available[i]
         IN IF hospital \in DOMAIN distances /\ distances[hospital] <= min_distance
            THEN Nearest_Leq(available, i + 1, distances, hospital, distances[hospital])
            ELSE Nearest_Leq(available, i + 1, distances, nearest_hospital,
                             min_distance)

\* Variant: the first reachable hospital is kept, not the nearest.
RECURSIVE Nearest_First(_, _, _, _, _)
Nearest_First(available, i, distances, nearest_hospital, min_distance) ==
    IF i > Len(available)
    THEN [nearest_hospital |-> nearest_hospital, min_distance |-> min_distance]
    ELSE LET hospital == available[i]
         IN IF /\ hospital \in DOMAIN distances
               /\ distances[hospital] < Infinity
               /\ nearest_hospital = None
            THEN Nearest_First(available, i + 1, distances, hospital,
                               distances[hospital])
            ELSE Nearest_First(available, i + 1, distances, nearest_hospital,
                               min_distance)

\* for hospital in available_hospitals: keep the first strict minimum.
RECURSIVE Nearest(_, _, _, _, _)
Nearest(available, i, distances, nearest_hospital, min_distance) ==
    IF i > Len(available)
    THEN [nearest_hospital |-> nearest_hospital, min_distance |-> min_distance]
    ELSE LET hospital == available[i]
         IN IF hospital \in DOMAIN distances /\ distances[hospital] < min_distance
            THEN Nearest(available, i + 1, distances, hospital, distances[hospital])
            ELSE Nearest(available, i + 1, distances, nearest_hospital, min_distance)

\* Variant: the path is not reversed.
RECURSIVE PathTo_NoReverse(_, _)
PathTo_NoReverse(predecessors, current) ==
    IF current = None THEN <<>>
    ELSE <<current>> \o PathTo_NoReverse(predecessors, predecessors[current])

\* while current is not None: path.append(current); then path.reverse()
RECURSIVE PathTo(_, _)
PathTo(predecessors, current) ==
    IF current = None THEN <<>>
    ELSE Append(PathTo(predecessors, predecessors[current]), current)

NotFound == [hospital |-> None, path |-> <<>>, distance |-> Infinity]

FindNearestAvailableHospital(g, hs, start_node) ==
    LET available_hospitals == GetAvailableHospitals(hs)
    IN IF available_hospitals = <<>> THEN NotFound
       ELSE LET d == Dijkstra(g, start_node)
                n == Nearest(available_hospitals, 1, d.distances, None, Infinity)
            IN IF n.nearest_hospital = None THEN NotFound
               ELSE [hospital |-> n.nearest_hospital,
                     path |-> PathTo(d.predecessors, n.nearest_hospital),
                     distance |-> n.min_distance]

-----------------------------------------------------------------------------
(* get_path_details *)

\* for neighbor, weight in self.graph[from_node]: if neighbor == to_node.
\* <<weight>> of the first match, <<>> when the loop ends without one.
EdgeWeight(nbrs, to_node) ==
    IF \E i \in 1..Len(nbrs) : nbrs[i][1] = to_node
    THEN LET i == CHOOSE j \in 1..Len(nbrs) :
                      /\ nbrs[j][1] = to_node
                      /\ \A k \in 1..(j - 1) : nbrs[k][1] # to_node
         IN <<nbrs[i][2]>>
    ELSE <<>>

\* The loop over the segments.  distance is the loop's local, <<>> while it
\* is unbound: it keeps the previous segment's value when no edge matches.
\* A from_node that is no key of the graph raises KeyError, an unbound
\* distance raises UnboundLocalError.
RECURSIVE Segments(_, _, _, _, _)
Segments(g, path, i, distance, acc) ==
    IF i > Len(path) - 1 THEN acc
    ELSE LET from_node == path[i]
             to_node == path[i + 1]
         IN IF from_node \notin DOMAIN g
            THEN [acc EXCEPT !.raised = "KeyError"]
            ELSE LET w == EdgeWeight(g[from_node], to_node)
                     dist == IF w = <<>> THEN distance ELSE w
                 IN IF dist = <<>>
                    THEN [acc EXCEPT !.raised = "UnboundLocalError"]
                    ELSE Segments(g, path, i + 1, dist,
                             [raised |-> None,
                              total_distance |-> acc.total_distance + dist[1],
                              segments |-> Append(acc.segments,
                                  [from |-> from_node, to |-> to_node,
                                   distance |-> dist[1]])])

\* Variant: a path of one segment is treated as too short (< 3 for < 2).
GetPathDetails_ShortGuard(g, path) ==
    IF Len(path) < 3
    THEN [raised |-> None, total_distance |-> 0, segments |-> <<>>]
    ELSE Segments(g, path, 1, <<>>,
                  [raised |-> None, total_distance |-> 0, segments |-> <<>>])

GetPathDetails(g, path) ==
    IF Len(path) < 2
    THEN [raised |-> None, total_distance |-> 0, segments |-> <<>>]
    ELSE Segments(g, path, 1, <<>>,
                  [raised |-> None, total_distance |-> 0, segments |-> <<>>])

-----------------------------------------------------------------------------
(* The operations as actions.  op, args and ret record the call that was   *)
(* made last and what it returned; the mutators record their return value  *)
(* only.  assigned holds, for each emergency being handled, the hospital   *)
(* its find returned and its commit has not yet used (the handler's local  *)
(* hospital), None otherwise.                                              *)

State == [graph |-> graph, node_positions |-> node_positions, hospitals |-> hospitals]

unchanged_network == UNCHANGED <<graph, node_positions, hospitals>>

add_node(node_id, x, y, is_hospital, capacity) ==
    LET g == AddNode(State, node_id, x, y, is_hospital, capacity)
    IN /\ graph' = g.graph
       /\ node_positions' = g.node_positions
       /\ hospitals' = g.hospitals
       /\ op' = "add_node"
       /\ args' = <<>>
       /\ ret' = None
       /\ UNCHANGED assigned

add_edge(from_node, to_node, distance) ==
    LET g == AddEdge(State, from_node, to_node, distance)
    IN /\ graph' = g.graph
       /\ UNCHANGED <<node_positions, hospitals>>
       /\ op' = "add_edge"
       /\ args' = <<>>
       /\ ret' = None
       /\ UNCHANGED assigned

get_available_hospitals ==
    /\ unchanged_network
    /\ op' = "get_available_hospitals"
    /\ args' = <<>>
    /\ ret' = GetAvailableHospitals(hospitals)
    /\ UNCHANGED assigned

update_hospital_capacity(hospital_id, delta) ==
    LET r == UpdateHospitalCapacity(hospitals, hospital_id, delta)
    IN /\ hospitals' = r.hospitals
       /\ UNCHANGED <<graph, node_positions>>
       /\ op' = "update_hospital_capacity"
       /\ args' = <<>>
       /\ ret' = r.ok
       /\ UNCHANGED assigned

dijkstra(start_node) ==
    /\ unchanged_network
    /\ op' = "dijkstra"
    /\ args' = <<start_node>>
    /\ ret' = Dijkstra(graph, start_node)
    /\ UNCHANGED assigned

find_nearest_available_hospital(start_node) ==
    /\ unchanged_network
    /\ op' = "find_nearest_available_hospital"
    /\ args' = <<start_node>>
    /\ ret' = FindNearestAvailableHospital(graph, hospitals, start_node)
    /\ UNCHANGED assigned

get_path_details(path) ==
    /\ unchanged_network
    /\ op' = "get_path_details"
    /\ args' = <<path>>
    /\ ret' = GetPathDetails(graph, path)
    /\ UNCHANGED assigned

\* hospital, path, distance = g.find_nearest_available_hospital(...);
\* if hospital: total_distance, segments = g.get_path_details(path)
path_details_of_found ==
    /\ op = "find_nearest_available_hospital"
    /\ ret.hospital # None
    /\ get_path_details(ret.path)

-----------------------------------------------------------------------------
(* A network built call by call from the empty graph. *)

MaxWeight == 1
MaxCapacity == 2
MaxDelta == 2

\* "A" is declared as a plain node, as the landmarks of the sample map are;
\* "B" and "C" are declared as plain nodes or as hospitals; "Z" is never
\* declared.
NodeIds == {"A", "B", "C"}
HospitalFlags(n) == IF n = "A" THEN {FALSE} ELSE BOOLEAN
Unknown == "Z"
Weights == 0..MaxWeight

\* Routing reads a hospital's occupancy only through occupied < capacity:
\* a hospital is declared with no bed or with one bed, and a call admits or
\* releases one patient.
Beds == {0, 1}
Commits == {-1, 1}

Init ==
    /\ graph = EmptyGraph.graph
    /\ node_positions = EmptyGraph.node_positions
    /\ hospitals = EmptyGraph.hospitals
    /\ op = "init"
    /\ args = <<>>
    /\ ret = None
    /\ assigned = <<>>

Next ==
    \/ \E n \in NodeIds : \E h \in HospitalFlags(n), c \in Beds :
          add_node(n, Rank(n), 0, h, c)
    \/ \E u \in NodeIds : \E v \in NodeIds \ {u}, w \in Weights : add_edge(u, v, w)
    \/ get_available_hospitals
    \/ \E h \in NodeIds \cup {Unknown}, d \in Commits : update_hospital_capacity(h, d)
    \/ \E s \in NodeIds \cup {Unknown} : dijkstra(s)
    \/ \E s \in NodeIds \cup {Unknown} : find_nearest_available_hospital(s)
    \/ path_details_of_found

Spec == Init /\ [][Next]_vars

-----------------------------------------------------------------------------
(* Occupancy alone: hospitals are declared with any capacity up to         *)
(* MaxCapacity and updated by any delta up to MaxDelta in either           *)
(* direction.  No operation on hospitals reads the edges, so none are      *)
(* added here.                                                             *)

Capacities == 0..MaxCapacity
Deltas == (-MaxDelta)..MaxDelta

NextCapacity ==
    \/ \E n \in NodeIds : \E h \in HospitalFlags(n), c \in Capacities :
          add_node(n, Rank(n), 0, h, c)
    \/ get_available_hospitals
    \/ \E h \in NodeIds \cup {Unknown}, d \in Deltas : update_hospital_capacity(h, d)

SpecCapacity == Init /\ [][NextCapacity]_vars

-----------------------------------------------------------------------------
(* The sample map of example_usage.py: create_sample_map's calls in order, *)
(* applied with AddNode and AddEdge.  Weights are in tenths.               *)

SampleNodes ==
    <<<<"A", 0, 0, FALSE, 0>>, <<"B", 2, 0, FALSE, 0>>, <<"C", 4, 0, FALSE, 0>>,
      <<"D", 6, 0, FALSE, 0>>, <<"E", 0, 2, FALSE, 0>>, <<"F", 2, 2, FALSE, 0>>,
      <<"G", 4, 2, FALSE, 0>>, <<"H", 6, 2, FALSE, 0>>, <<"I", 0, 4, FALSE, 0>>,
      <<"J", 2, 4, FALSE, 0>>, <<"K", 4, 4, FALSE, 0>>, <<"L", 6, 4, FALSE, 0>>,
      <<"H1", 1, 1, TRUE, 2>>, <<"H2", 5, 1, TRUE, 3>>, <<"H3", 3, 3, TRUE, 5>>>>

SampleEdges ==
    <<<<"A", "B", 20>>, <<"B", "C", 20>>, <<"C", "D", 20>>,
      <<"E", "F", 20>>, <<"F", "G", 20>>, <<"G", "H", 20>>,
      <<"I", "J", 20>>, <<"J", "K", 20>>, <<"K", "L", 20>>,
      <<"A", "E", 20>>, <<"E", "I", 20>>, <<"B", "F", 20>>, <<"F", "J", 20>>,
      <<"C", "G", 20>>, <<"G", "K", 20>>, <<"D", "H", 20>>, <<"H", "L", 20>>,
      <<"A", "H1", 14>>, <<"B", "H1", 14>>, <<"E", "H1", 14>>, <<"F", "H1", 14>>,
      <<"C", "H2", 14>>, <<"D", "H2", 14>>, <<"G", "H2", 14>>, <<"H", "H2", 14>>,
      <<"F", "H3", 14>>, <<"G", "H3", 14>>, <<"J", "H3", 14>>, <<"K", "H3", 14>>>>

RECURSIVE AddNodes(_, _, _)
AddNodes(g, calls, i) ==
    IF i > Len(calls) THEN g
    ELSE AddNodes(AddNode(g, calls[i][1], calls[i][2], calls[i][3],
                          calls[i][4], calls[i][5]), calls, i + 1)

RECURSIVE AddEdges(_, _, _)
AddEdges(g, calls, i) ==
    IF i > Len(calls) THEN g
    ELSE AddEdges(AddEdge(g, calls[i][1], calls[i][2], calls[i][3]), calls, i + 1)

create_sample_map == AddEdges(AddNodes(EmptyGraph, SampleNodes, 1), SampleEdges, 1)

SampleIds == {SampleNodes[i][1] : i \in 1..Len(SampleNodes)}

InitGrid ==
    /\ graph = create_sample_map.graph
    /\ node_positions = create_sample_map.node_positions
    /\ hospitals = create_sample_map.hospitals
    /\ op = "init"
    /\ args = <<>>
    /\ ret = None
    /\ assigned = <<>>

NextGrid ==
    \/ get_available_hospitals
    \/ \E h \in SampleIds \cup {Unknown}, d \in Commits : update_hospital_capacity(h, d)
    \/ \E s \in SampleIds \cup {Unknown} : find_nearest_available_hospital(s)
    \/ path_details_of_found

SpecGrid == InitGrid /\ [][NextGrid]_vars

-----------------------------------------------------------------------------
(* Reference definitions for the properties: shortest distances by brute   *)
(* force over the simple paths of the network.                             *)

Range(seq) == {seq[i] : i \in 1..Len(seq)}

Neighbors(g, n) == {g[n][i][1] : i \in 1..Len(g[n])}

\* The weights stored at u for the neighbour v.
StoredWeights(g, u, v) == {g[u][i][2] : i \in {j \in 1..Len(g[u]) : g[u][j][1] = v}}

IsEdge(g, u, v) == u \in DOMAIN g /\ StoredWeights(g, u, v) # {}

MinOf(S) == CHOOSE x \in S : \A y \in S : x <= y

\* Every simple path that extends p to the node t.
RECURSIVE PathsFrom(_, _, _)
PathsFrom(g, p, t) ==
    IF p[Len(p)] = t THEN {p}
    ELSE UNION {PathsFrom(g, Append(p, n), t) :
                    n \in Neighbors(g, p[Len(p)]) \ Range(p)}

RECURSIVE PathCost(_, _, _)
PathCost(g, p, i) ==
    IF i >= Len(p) THEN 0
    ELSE MinOf(StoredWeights(g, p[i], p[i + 1])) + PathCost(g, p, i + 1)

BruteDistance(g, s, t) ==
    IF s \notin DOMAIN g \/ t \notin DOMAIN g THEN Infinity
    ELSE LET costs == {PathCost(g, p, 1) : p \in PathsFrom(g, <<s>>, t)}
         IN IF costs = {} THEN Infinity ELSE MinOf(costs)

Hospital(id) == hospitals[HospitalIndex(hospitals, id)]

HasRoom(id) ==
    id \in HospitalIds(hospitals) /\ Hospital(id).capacity < Hospital(id).max_capacity

AllFull ==
    \A i \in 1..Len(hospitals) : hospitals[i].capacity = hospitals[i].max_capacity

Found == op = "find_nearest_available_hospital" /\ ret.hospital # None

-----------------------------------------------------------------------------
(* Properties *)

\* C1: with capacities declared non-negative, every hospital has
\* 0 <= occupied <= capacity in every reachable state, whatever ids and
\* deltas update_hospital_capacity is called with.
C1_OccupancyBounds ==
    \A i \in 1..Len(hospitals) :
        0 <= hospitals[i].capacity /\ hospitals[i].capacity <= hospitals[i].max_capacity

\* A full hospital after a rejected update.
C1_Witness ==
    /\ op = "update_hospital_capacity"
    /\ ret = FALSE
    /\ \E i \in 1..Len(hospitals) :
          hospitals[i].capacity = hospitals[i].max_capacity /\ hospitals[i].capacity > 0

\* C2: a hospital returned by find_nearest_available_hospital has room
\* (occupied < capacity), the returned cost is the shortest-path distance
\* from the origin to it, and no other hospital with room is strictly nearer.
C2_NearestAvailable ==
    Found =>
        /\ HasRoom(ret.hospital)
        /\ ret.distance = BruteDistance(graph, args[1], ret.hospital)
        /\ \A h \in HospitalIds(hospitals) :
              HasRoom(h) => BruteDistance(graph, args[1], h) >= ret.distance

\* A hospital is returned although a full hospital is strictly nearer, and
\* another hospital with room is strictly farther.
C2_Witness ==
    /\ Found
    /\ \E h \in HospitalIds(hospitals) :
          /\ ~HasRoom(h)
          /\ BruteDistance(graph, args[1], h) < ret.distance
    /\ Len(ret.path) = 3

\* C3: on non-negative weights dijkstra returns, for every node, the minimum
\* summed weight over all paths from the source (infinity when there is
\* none), and every finite distance is >= 0.
C3_DijkstraMinimal ==
    (op = "dijkstra" /\ args[1] \in DOMAIN graph) =>
        \A n \in DOMAIN graph :
            /\ ret.distances[n] = BruteDistance(graph, args[1], n)
            /\ ret.distances[n] >= 0

\* The two-hop path is strictly shorter than the direct edge.
C3_Witness ==
    /\ op = "dijkstra"
    /\ args[1] \in DOMAIN graph
    /\ \E n \in DOMAIN graph :
          /\ IsEdge(graph, args[1], n)
          /\ ret.distances[n] < MinOf(StoredWeights(graph, args[1], n))

\* C4: update_hospital_capacity(id, delta) returns true exactly when id is a
\* hospital and occupied + delta lies in [0, capacity], and then occupied
\* becomes occupied + delta; otherwise it returns false and no hospital's
\* occupancy or capacity changes.
C4_UpdateContract ==
    [][\A h \in NodeIds \cup {Unknown}, d \in Deltas :
          update_hospital_capacity(h, d) =>
              LET fits == /\ h \in HospitalIds(hospitals)
                          /\ 0 <= Hospital(h).capacity + d
                          /\ Hospital(h).capacity + d <= Hospital(h).max_capacity
              IN /\ ret' = fits
                 /\ Len(hospitals') = Len(hospitals)
                 /\ \A i \in 1..Len(hospitals) :
                       /\ hospitals'[i].id = hospitals[i].id
                       /\ hospitals'[i].max_capacity = hospitals[i].max_capacity
                       /\ hospitals'[i].capacity =
                              IF fits /\ hospitals[i].id = h
                              THEN hospitals[i].capacity + d
                              ELSE hospitals[i].capacity]_vars

\* An accepted update has raised an occupancy.
C4_Witness ==
    /\ op = "update_hospital_capacity"
    /\ ret = TRUE
    /\ \E i \in 1..Len(hospitals) : hospitals[i].capacity > 0

\* C5: while every hospital has occupied = capacity,
\* find_nearest_available_hospital returns (None, [], infinity) for every
\* origin and changes nothing.
C5_Exhaustion ==
    [][(op' = "find_nearest_available_hospital" /\ AllFull) =>
          (ret' = NotFound /\ unchanged_network)]_vars

\* Every hospital is full, one of them holds a patient and is connected to
\* the known origin of the call.
C5_Witness ==
    /\ op = "find_nearest_available_hospital"
    /\ AllFull
    /\ \E i \in 1..Len(hospitals) :
          /\ hospitals[i].capacity > 0
          /\ args[1] # hospitals[i].id
          /\ BruteDistance(graph, args[1], hospitals[i].id) < Infinity

\* C6: when no hospital has room and is reachable from the origin (unknown
\* origin, no path to any hospital with room, or no hospital declared), the
\* call returns the sentinel (None, [], infinity).
C6_Unreachable ==
    (/\ op = "find_nearest_available_hospital"
     /\ \A h \in HospitalIds(hospitals) :
           HasRoom(h) => BruteDistance(graph, args[1], h) = Infinity)
    => ret = NotFound

\* A known origin and a hospital with room that no path joins.
C6_Witness ==
    /\ op = "find_nearest_available_hospital"
    /\ args[1] \in DOMAIN graph
    /\ graph[args[1]] # <<>>
    /\ \E h \in HospitalIds(hospitals) : HasRoom(h)
    /\ \A h \in HospitalIds(hospitals) :
          HasRoom(h) => BruteDistance(graph, args[1], h) = Infinity
    /\ ret = NotFound

\* C7: a returned path starts at the origin, ends at the returned hospital,
\* follows edges of the network and visits no node twice; when the returned
\* hospital is the origin the path is [origin] and the cost 0.
C7_PathShape ==
    (op = "find_nearest_available_hospital" /\ ret.path # <<>>) =>
        /\ ret.path[1] = args[1]
        /\ ret.path[Len(ret.path)] = ret.hospital
        /\ \A i \in 1..(Len(ret.path) - 1) : IsEdge(graph, ret.path[i], ret.path[i + 1])
        /\ \A i, j \in 1..Len(ret.path) : ret.path[i] = ret.path[j] => i = j
        /\ ret.hospital = args[1] => (ret.path = <<args[1]>> /\ ret.distance = 0)

\* A path over two edges.
C7_Witness ==
    /\ Found
    /\ Len(ret.path) = 3

\* The origin is the returned hospital, with a zero-weight edge at it.
C7_WitnessOrigin ==
    /\ Found
    /\ ret.hospital = args[1]
    /\ \E n \in DOMAIN graph : 0 \in StoredWeights(graph, args[1], n)

\* C8: in the sample map, for every origin and occupancy state in which a
\* hospital is found, get_path_details of the returned path has a total
\* distance equal to the returned cost.
C8_RoundTrip ==
    [][(Found /\ op' = "get_path_details" /\ args' = <<ret.path>>) =>
          (ret'.raised = None /\ ret'.total_distance = ret.distance)]_vars

\* The details of a path over two edges.
C8_Witness ==
    /\ op = "get_path_details"
    /\ Len(ret.segments) = 2
    /\ ret.total_distance = 34

NoAllocation == \A i \in 1..Len(hospitals) : hospitals[i].capacity = 0

\* C9 as claimed: before any allocation the call from I returns H1 with
\* path cost 5.4.
C9_Cost54 ==
    (op = "find_nearest_available_hospital" /\ args = <<"I">> /\ NoAllocation) =>
        (ret.hospital = "H1" /\ ret.distance = 54)

\* C9, amended: before any allocation the call from I returns H1 along
\* I -> E -> H1 with path cost 3.4 (2 + 1.4).
C9_Cost34 ==
    (op = "find_nearest_available_hospital" /\ args = <<"I">> /\ NoAllocation) =>
        (ret.hospital = "H1" /\ ret.distance = 34 /\ ret.path = <<"I", "E", "H1">>)

\* The call from I on the map as built, or after every patient has left.
C9_Witness ==
    /\ op = "find_nearest_available_hospital"
    /\ args = <<"I">>
    /\ NoAllocation
    /\ ret.hospital = "H1"

\* C10: once H1 holds two patients (its capacity), get_available_hospitals
\* does not list H1 and the call from I never returns H1: it returns H2 or
\* H3 while one of them has room.
C10_H1Full ==
    Hospital("H1").capacity = 2 =>
        /\ op = "get_available_hospitals" => "H1" \notin Range(ret)
        /\ (op = "find_nearest_available_hospital" /\ args = <<"I">>) =>
              /\ ret.hospital # "H1"
              /\ (HasRoom("H2") \/ HasRoom("H3")) => ret.hospital \in {"H2", "H3"}

\* Two commits to H1 and nothing else, then the call from I.
C10_Witness ==
    /\ Hospital("H1").capacity = 2
    /\ Hospital("H2").capacity = 0
    /\ Hospital("H3").capacity = 0
    /\ op = "find_nearest_available_hospital"
    /\ args = <<"I">>
    /\ ret.hospital \in {"H2", "H3"}

\* C14: dijkstra from a known source returns maps defined on every node,
\* with distance infinity and predecessor None for each node no path
\* reaches, and distance 0 and predecessor None for the source; from an
\* unknown source it returns two empty maps.
C14_DijkstraMaps ==
    op = "dijkstra" =>
        IF args[1] \in DOMAIN graph
        THEN /\ DOMAIN ret.distances = DOMAIN graph
             /\ DOMAIN ret.predecessors = DOMAIN graph
             /\ ret.distances[args[1]] = 0
             /\ ret.predecessors[args[1]] = None
             /\ \A n \in DOMAIN graph :
                   PathsFrom(graph, <<args[1]>>, n) = {} =>
                       (ret.distances[n] = Infinity /\ ret.predecessors[n] = None)
        ELSE ret.distances = EmptyMap /\ ret.predecessors = EmptyMap

\* A known source with a zero-weight edge and a node that no path reaches.
C14_Witness ==
    /\ op = "dijkstra"
    /\ args[1] \in DOMAIN graph
    /\ \E n \in DOMAIN graph : 0 \in StoredWeights(graph, args[1], n)
    /\ \E n \in DOMAIN graph : ret.distances[n] = Infinity

QueryOps ==
    {"get_available_hospitals", "dijkstra", "find_nearest_available_hospital",
     "get_path_details"}

\* C15: only update_hospital_capacity changes hospital state: every other
\* operation (add_node on a new or an existing id, add_edge, the queries)
\* leaves the occupancy and capacity of every declared hospital as they
\* were, and the queries leave nodes and edges as they were too.
C15_Frame ==
    [][op' # "update_hospital_capacity" =>
          /\ Len(hospitals') >= Len(hospitals)
          /\ \A i \in 1..Len(hospitals) : hospitals'[i] = hospitals[i]
          /\ op' \in QueryOps => unchanged_network]_vars

\* add_node on an id that exists (both edges were added before it), while a
\* hospital holds a patient.
C15_Witness ==
    /\ op = "add_node"
    /\ IsEdge(graph, "A", "B")
    /\ IsEdge(graph, "B", "C")
    /\ \E i \in 1..Len(hospitals) : hospitals[i].capacity > 0

\* The hospital entry that add_node has just appended.
Declared ==
    hospitals'[Len(hospitals')]

DeclaresHospital ==
    op' = "add_node" /\ Len(hospitals') > Len(hospitals)

\* C17 (as stated): every hospital declared through add_node, whatever
\* non-negative capacity is passed (0 included), starts with occupancy 0
\* below its capacity and is listed by get_available_hospitals.
C17_StartsFree ==
    [][DeclaresHospital =>
          /\ Declared.capacity = 0
          /\ Declared.capacity < Declared.max_capacity
          /\ Declared.id \in Range(GetAvailableHospitals(hospitals'))]_vars

\* C17 (amended): every declared hospital starts with occupancy 0; it is
\* below its capacity and listed by get_available_hospitals exactly when the
\* capacity passed is at least 1, and with capacity 0 it starts full and is
\* not listed.
C17_StartsFreeIfPositive ==
    [][DeclaresHospital =>
          /\ Declared.capacity = 0
          /\ Declared.max_capacity >= 1 =>
                 /\ Declared.capacity < Declared.max_capacity
                 /\ Declared.id \in Range(GetAvailableHospitals(hospitals'))
          /\ Declared.max_capacity = 0 =>
                 /\ Declared.capacity = Declared.max_capacity
                 /\ Declared.id \notin Range(GetAvailableHospitals(hospitals'))]_vars

\* A hospital of capacity 0 and one of capacity 2 are declared, neither
\* touched since.
C17_Witness ==
    /\ op = "add_node"
    /\ \E i, j \in 1..Len(hospitals) :
          /\ hospitals[i].max_capacity = 0
          /\ hospitals[j].max_capacity = 2
          /\ hospitals[j].capacity = 0

\* A release of one unit, update_hospital_capacity(h, -1), of a full hospital.
ReleasesFull(h) ==
    /\ update_hospital_capacity(h, -1)
    /\ h \in HospitalIds(hospitals)
    /\ Hospital(h).capacity = Hospital(h).max_capacity

\* C18 (as stated): for every full hospital, update_hospital_capacity(h, -1)
\* returns True and leaves it below capacity and listed by
\* get_available_hospitals.
C18_ReleaseFrees ==
    [][\A h \in NodeIds :
          ReleasesFull(h) =>
              /\ ret' = TRUE
              /\ h \in Range(GetAvailableHospitals(hospitals'))]_vars

\* C18 (amended): for every full hospital of capacity at least 1,
\* update_hospital_capacity(h, -1) returns True, lowers the occupancy by one
\* and leaves the hospital listed by get_available_hospitals; for a hospital
\* of capacity 0 it returns False and the hospital stays full and unlisted.
C18_ReleaseFreesIfPositive ==
    [][\A h \in NodeIds :
          ReleasesFull(h) =>
              IF Hospital(h).max_capacity >= 1
              THEN /\ ret' = TRUE
                   /\ hospitals'[HospitalIndex(hospitals', h)].capacity =
                          Hospital(h).capacity - 1
                   /\ h \in Range(GetAvailableHospitals(hospitals'))
              ELSE /\ ret' = FALSE
                   /\ hospitals' = hospitals
                   /\ h \notin Range(GetAvailableHospitals(hospitals'))]_vars

\* An accepted update has left the only hospital, of capacity 1, empty and
\* listed.
C18_Witness ==
    /\ op = "update_hospital_capacity"
    /\ ret = TRUE
    /\ Len(hospitals) = 1
    /\ hospitals[1].max_capacity = 1
    /\ hospitals[1].capacity = 0
    /\ hospitals[1].id \in Range(GetAvailableHospitals(hospitals))

-----------------------------------------------------------------------------
(* Declarations: two ids declared and declared again at either of two     *)
(* positions, as plain nodes or as hospitals, joined by an edge, and the   *)
(* hospitals admitting and releasing patients.                             *)

BuildIds == {"A", "B"}
Positions == {<<0, 0>>, <<1, 2>>}

NextBuild ==
    \/ \E n \in BuildIds, p \in Positions, h \in BOOLEAN, c \in Beds :
          add_node(n, p[1], p[2], h, c)
    \/ \E u \in BuildIds : \E v \in BuildIds \ {u}, w \in Weights : add_edge(u, v, w)
    \/ \E h \in BuildIds, d \in Commits : update_hospital_capacity(h, d)

SpecBuild == Init /\ [][NextBuild]_vars

(* Edges: add_edge between any two of the two ids and the undeclared one,  *)
(* an id and itself included, in either direction and repeatedly, while    *)
(* the ids are declared as plain nodes or as hospitals.                    *)

NextEdges ==
    \/ \E n \in BuildIds, h \in BOOLEAN, c \in Beds : add_node(n, Rank(n), 0, h, c)
    \/ \E u, v \in BuildIds \cup {Unknown}, w \in Weights : add_edge(u, v, w)

SpecEdges == Init /\ [][NextEdges]_vars

\* C11: add_node is idempotent per id: a call with an id that exists,
\* whatever position, hospital flag and capacity it passes, leaves the
\* position, adjacency, hospital flag, capacity and occupancy of every node
\* as they were.
C11_AddNodeIdempotent ==
    [][\A n \in BuildIds, p \in Positions, h \in BOOLEAN, c \in Beds :
          (add_node(n, p[1], p[2], h, c) /\ n \in DOMAIN graph) =>
              unchanged_network]_vars

\* add_node on an id that exists: both ids were declared before the edge
\* between them was added and before the only hospital admitted its
\* patient, and they sit at different positions.
C11_Witness ==
    /\ op = "add_node"
    /\ IsEdge(graph, "A", "B")
    /\ node_positions["A"] # node_positions["B"]
    /\ \E i \in 1..Len(hospitals) : hospitals[i].capacity = 1
    /\ Len(hospitals) = 1

NodesExist(g, hs) ==
    /\ HospitalIds(hs) \subseteq DOMAIN g
    /\ \A n \in DOMAIN g : Neighbors(g, n) \subseteq DOMAIN g

\* C12: after any sequence of add_node and add_edge calls every hospital id
\* is a node and every endpoint stored in an adjacency list is a node, and
\* add_edge with an undeclared endpoint returns normally, creates no node
\* and leaves the network as it was.
C12_EndpointsExist ==
    [][/\ NodesExist(graph', hospitals')
       /\ \A u, v \in BuildIds \cup {Unknown}, w \in Weights :
             ((u \notin DOMAIN graph \/ v \notin DOMAIN graph) /\ add_edge(u, v, w)) =>
                 /\ unchanged_network
                 /\ ret' = None]_vars

\* add_edge was called when "B", a hospital, was the only node: the call
\* named an undeclared endpoint (an edge from "B" to itself would be stored).
C12_Witness ==
    /\ op = "add_edge"
    /\ DOMAIN graph = {"B"}
    /\ graph["B"] = <<>>
    /\ HospitalIds(hospitals) = {"B"}

Simple(g) ==
    \A u \in DOMAIN g : \A i, j \in 1..Len(g[u]) : g[u][i][1] = g[u][j][1] => i = j

Symmetric(g) ==
    \A u, v \in DOMAIN g : StoredWeights(g, u, v) = StoredWeights(g, v, u)

\* C13: after any sequence of add_edge calls on declared nodes (repeated
\* pairs, reversed pairs and an id with itself included) each adjacency list
\* has at most one entry per neighbour, v is in u's list with weight w
\* exactly when u is in v's list with weight w, and the weight stored for a
\* pair is the one its most recent add_edge gave: a call stores its weight
\* for its pair and no step changes the weight of any other pair.
C13_SimpleSymmetric ==
    [][/\ Simple(graph')
       /\ Symmetric(graph')
       /\ \A u, v \in BuildIds, w \in Weights :
             (u \in DOMAIN graph /\ v \in DOMAIN graph /\ add_edge(u, v, w)) =>
                 /\ StoredWeights(graph', u, v) = {w}
                 /\ \A p, q \in DOMAIN graph :
                       {p, q} # {u, v} =>
                           StoredWeights(graph', p, q) = StoredWeights(graph, p, q)
       /\ op' # "add_edge" =>
             \A p, q \in DOMAIN graph :
                 StoredWeights(graph', p, q) = StoredWeights(graph, p, q)]_vars

\* Both ids carry an edge to themselves and the edge between them, with
\* both weights in use.
C13_Witness ==
    /\ op = "add_edge"
    /\ DOMAIN graph = BuildIds
    /\ StoredWeights(graph, "A", "A") = {1}
    /\ StoredWeights(graph, "B", "B") = {0}
    /\ StoredWeights(graph, "A", "B") = {1}
    /\ StoredWeights(graph, "B", "A") = {1}

-----------------------------------------------------------------------------
(* Calls with arbitrary arguments: the two ids are declared as plain nodes *)
(* or hospitals and joined by an edge, and every operation is called with  *)
(* declared and undeclared ids, get_path_details with every list of at     *)
(* most MaxPathLen of them.                                                *)

MaxPathLen == 3

Paths == UNION {[1..k -> BuildIds \cup {Unknown}] : k \in 0..MaxPathLen}

NextDetails ==
    \/ \E n \in BuildIds, h \in BOOLEAN : add_node(n, Rank(n), 0, h, 1)
    \/ \E u \in BuildIds : \E v \in BuildIds \ {u}, w \in Weights : add_edge(u, v, w)
    \/ \E h \in BuildIds \cup {Unknown} : update_hospital_capacity(h, 1)
    \/ \E s \in BuildIds \cup {Unknown} : dijkstra(s)
    \/ \E s \in BuildIds \cup {Unknown} : find_nearest_available_hospital(s)
    \/ \E path \in Paths : get_path_details(path)

SpecDetails == Init /\ [][NextDetails]_vars

\* C16: no query fails on an id that is not a node: dijkstra,
\* find_nearest_available_hospital and update_hospital_capacity called with
\* such an id, and get_path_details called with a path that contains one,
\* return their empty result (two empty maps; no hospital, empty path,
\* infinity; False; 0 and no segments) and do not raise.
C16_NoRaise ==
    [][/\ \A s \in BuildIds \cup {Unknown} :
             s \notin DOMAIN graph =>
                 /\ dijkstra(s) =>
                        ret' = [distances |-> EmptyMap, predecessors |-> EmptyMap]
                 /\ find_nearest_available_hospital(s) => ret' = NotFound
                 /\ update_hospital_capacity(s, 1) => ret' = FALSE
       /\ \A path \in Paths :
             ((\E i \in 1..Len(path) : path[i] \notin DOMAIN graph)
                  /\ get_path_details(path)) =>
                 /\ ret'.raised = None
                 /\ ret'.total_distance = 0
                 /\ ret'.segments = <<>>]_vars

RECURSIVE SumDistances(_, _)
SumDistances(segments, i) ==
    IF i > Len(segments) THEN 0
    ELSE segments[i].distance + SumDistances(segments, i + 1)

\* C20: get_path_details returns 0 and no segments for an empty or
\* single-node path; for every longer path over nodes of the graph it
\* returns one segment per consecutive pair, in path order, each with the
\* weight stored for the edge between that segment's own two nodes, and a
\* total that is the sum of the segment distances.
C20_Breakdown ==
    (op = "get_path_details" /\ Range(args[1]) \subseteq DOMAIN graph) =>
        LET path == args[1]
        IN /\ ret.raised = None
           /\ Len(ret.segments) = IF Len(path) < 2 THEN 0 ELSE Len(path) - 1
           /\ \A i \in 1..Len(ret.segments) :
                 /\ ret.segments[i].from = path[i]
                 /\ ret.segments[i].to = path[i + 1]
                 /\ ret.segments[i].distance
                        \in StoredWeights(graph, path[i], path[i + 1])
           /\ ret.total_distance = SumDistances(ret.segments, 1)

-----------------------------------------------------------------------------
(* Emergencies handled side by side on the sample map.  Each handler runs  *)
(* the body of test_multiple_emergencies' loop as two steps, the find and  *)
(* then, if a hospital was returned, the update; the steps of different    *)
(* handlers interleave in any order, and a handler that has finished takes *)
(* the next emergency.                                                     *)

MaxEvents == 2

Events == 1..MaxEvents
Emergencies == {"I", "L", "A"}

\* hospital, path, distance = g.find_nearest_available_hospital(location)
emergency_find(e, location) ==
    /\ assigned[e] = None
    /\ unchanged_network
    /\ op' = "find_nearest_available_hospital"
    /\ args' = <<location>>
    /\ ret' = FindNearestAvailableHospital(graph, hospitals, location)
    /\ assigned' = [assigned EXCEPT ![e] = ret'.hospital]

\* if hospital: g.update_hospital_capacity(hospital)
emergency_commit(e) ==
    LET r == UpdateHospitalCapacity(hospitals, assigned[e], 1)
    IN /\ assigned[e] # None
       /\ hospitals' = r.hospitals
       /\ UNCHANGED <<graph, node_positions>>
       /\ op' = "update_hospital_capacity"
       /\ args' = <<>>
       /\ ret' = r.ok
       /\ assigned' = [assigned EXCEPT ![e] = None]

InitEvents ==
    /\ graph = create_sample_map.graph
    /\ node_positions = create_sample_map.node_positions
    /\ hospitals = create_sample_map.hospitals
    /\ op = "init"
    /\ args = <<>>
    /\ ret = None
    /\ assigned = [e \in Events |-> None]

NextEvents ==
    \/ \E e \in Events, location \in Emergencies : emergency_find(e, location)
    \/ \E e \in Events : emergency_commit(e)

SpecEvents == InitEvents /\ [][NextEvents]_vars

FreeUnits(hs, id) ==
    hs[HospitalIndex(hs, id)].max_capacity - hs[HospitalIndex(hs, id)].capacity

\* C19: when the finds and the commits of several emergencies interleave in
\* any order, no two of them both take a hospital's last free unit: the
\* occupancy of a hospital never exceeds its capacity; a commit that returns
\* True uses up exactly one free unit of its hospital, so that of the
\* commits made while a hospital has k free units at most k return True;
\* and a commit on a hospital with no free unit left returns False and
\* changes nothing.
C19_NoDoubleAllocation ==
    [][/\ \A i \in 1..Len(hospitals') :
             hospitals'[i].capacity <= hospitals'[i].max_capacity
       /\ \A e \in Events :
             emergency_commit(e) =>
                 IF FreeUnits(hospitals, assigned[e]) >= 1
                 THEN /\ ret' = TRUE
                      /\ FreeUnits(hospitals', assigned[e]) =
                             FreeUnits(hospitals, assigned[e]) - 1
                      /\ \A h \in HospitalIds(hospitals) \ {assigned[e]} :
                             FreeUnits(hospitals', h) = FreeUnits(hospitals, h)
                 ELSE /\ ret' = FALSE
                      /\ hospitals' = hospitals]_vars

\* A commit has just been refused: its emergency had found the hospital
\* while a unit was free, and another emergency's commit took that unit
\* first; the hospital is exactly full.
C19_Witness ==
    /\ op = "update_hospital_capacity"
    /\ ret = FALSE
    /\ Hospital("H1").capacity = Hospital("H1").max_capacity
    /\ Hospital("H2").capacity = 0
    /\ Hospital("H3").capacity = 0

\* C21: selection among equally near hospitals is deterministic: in the
\* state a find_nearest_available_hospital call has left, a further call
\* with the same origin returns the same hospital, path and cost, and of the
\* hospitals with room at the minimum distance the one declared first is the
\* one returned.
C21_FirstDeclaredWins ==
    op = "find_nearest_available_hospital" =>
        /\ ret = FindNearestAvailableHospital(graph, hospitals, args[1])
        /\ ret.hospital # None =>
               \A i \in 1..Len(hospitals) :
                   (/\ hospitals[i].capacity < hospitals[i].max_capacity
                    /\ BruteDistance(graph, args[1], hospitals[i].id) = ret.distance)
                       => i >= HospitalIndex(hospitals, ret.hospital)

\* "C" was declared before "B", both have room and are equally near the
\* origin "A", one step away, and "C" is returned.
C21_Witness ==
    /\ op = "find_nearest_available_hospital"
    /\ args = <<"A">>
    /\ ret.hospital = "C"
    /\ ret.distance = 1
    /\ HasRoom("B")
    /\ BruteDistance(graph, "A", "B") = 1
    /\ HospitalIndex(hospitals, "C") < HospitalIndex(hospitals, "B")

-----------------------------------------------------------------------------
(* app/locator.py: custom_dijkstra over a directed graph given as          *)
(* graph[u][v] = attributes of the edge u -> v, and get_nearest_hospital   *)
(* over a list of hospital points.  Both are functions of their arguments: *)
(* the initial state holds the arguments in args and the one step applies  *)
(* the function.                                                           *)

\* list comparison, as the heap compares the third component of its tuples
RECURSIVE ListLeq(_, _, _)
ListLeq(p, q, i) ==
    IF i > Len(p) THEN TRUE
    ELSE IF i > Len(q) THEN FALSE
    ELSE IF p[i] # q[i] THEN p[i] < q[i]
    ELSE ListLeq(p, q, i + 1)

\* (cost, node, path) tuples in heap order
QueueLeq(e, f) ==
    \/ e[1] < f[1]
    \/ e[1] = f[1] /\ e[2] < f[2]
    \/ e[1] = f[1] /\ e[2] = f[2] /\ ListLeq(e[3], f[3], 1)

\* edge_attrs.get(weight, 1)
EdgeAttr(edge_attrs, weight) ==
    IF weight \in DOMAIN edge_attrs THEN edge_attrs[weight] ELSE 1

\* Variant: the path is closed as soon as the target is pushed, not when it
\* is popped.
RECURSIVE CustomDijkstraLoop_StopAtPush(_, _, _, _, _)
CustomDijkstraLoop_StopAtPush(g, target, weight, queue, visited) ==
    IF queue = {} THEN [raised |-> None, found |-> FALSE, path |-> <<>>]
    ELSE LET top == CHOOSE e \in queue : \A f \in queue : QueueLeq(e, f)
             cost == top[1]
             current_node == top[2]
             rest == queue \ {top}
         IN IF current_node \in visited
            THEN CustomDijkstraLoop_StopAtPush(g, target, weight, rest, visited)
            ELSE LET path == Append(top[3], current_node)
                 IN IF current_node = target
                    THEN [raised |-> None, found |-> TRUE, path |-> path]
                    ELSE IF current_node \notin DOMAIN g
                    THEN [raised |-> "KeyError", found |-> FALSE, path |-> <<>>]
                    ELSE IF target \in DOMAIN g[current_node]
                    THEN [raised |-> None, found |-> TRUE,
                          path |-> Append(path, target)]
                    ELSE CustomDijkstraLoop_StopAtPush(g, target, weight,
                             rest \cup
                                 {<<cost + EdgeAttr(g[current_node][n], weight), n, path>> :
                                      n \in DOMAIN g[current_node] \ (visited \cup {current_node})},
                             visited \cup {current_node})

\* while queue: pop the least tuple; skip a visited node; return the path
\* at the target; otherwise push every unvisited neighbour.  The queue is a
\* set: a tuple pushed twice is popped twice and skipped the second time.
RECURSIVE CustomDijkstraLoop(_, _, _, _, _)
CustomDijkstraLoop(g, target, weight, queue, visited) ==
    IF queue = {} THEN [raised |-> None, found |-> FALSE, path |-> <<>>]
    ELSE LET top == CHOOSE e \in queue : \A f \in queue : QueueLeq(e, f)
             cost == top[1]
             current_node == top[2]
             rest == queue \ {top}
         IN IF current_node \in visited
            THEN CustomDijkstraLoop(g, target, weight, rest, visited)
            ELSE LET path == Append(top[3], current_node)
                 IN IF current_node = target
                    THEN [raised |-> None, found |-> TRUE, path |-> path]
                    ELSE IF current_node \notin DOMAIN g
                    THEN [raised |-> "KeyError", found |-> FALSE, path |-> <<>>]
                    ELSE CustomDijkstraLoop(g, target, weight,
                             rest \cup
                                 {<<cost + EdgeAttr(g[current_node][n], weight), n, path>> :
                                      n \in DOMAIN g[current_node] \ (visited \cup {current_node})},
                             visited \cup {current_node})

\* [raised, found, path]: found is FALSE for the return value None.
CustomDijkstra(g, source, target, weight) ==
    CustomDijkstraLoop(g, target, weight, {<<0, source, <<>> >>}, {})

custom_dijkstra ==
    /\ op = "init"
    /\ op' = "custom_dijkstra"
    /\ ret' = CustomDijkstra(args[1], args[2], args[3], args[4])
    /\ UNCHANGED <<graph, node_positions, hospitals, args, assigned>>

MaxLength == 1

StreetNodes == 1..3
StreetPairs == {e \in StreetNodes \X StreetNodes : e[1] # e[2]}
NoEdge == [length |-> -1, time |-> -1]
EdgeAttrs == {[length |-> l, time |-> MaxLength - l] : l \in 0..MaxLength}

\* The adjacency view graph[u][v] of a choice of edges.
Adjacency(edges) ==
    [u \in StreetNodes |->
        [v \in {n \in StreetNodes : n # u /\ edges[<<u, n>>] # NoEdge} |->
            edges[<<u, v>>]]]

StreetGraphs == {Adjacency(edges) : edges \in [StreetPairs -> EdgeAttrs \cup {NoEdge}]}

InitRoute ==
    /\ graph = EmptyGraph.graph
    /\ node_positions = EmptyGraph.node_positions
    /\ hospitals = EmptyGraph.hospitals
    /\ assigned = <<>>
    /\ op = "init"
    /\ args \in StreetGraphs \X StreetNodes \X StreetNodes \X {"length", "time"}
    /\ ret = None

NextRoute == custom_dijkstra

SpecRoute == InitRoute /\ [][NextRoute]_vars

\* Every simple directed path that extends p to the node t.
RECURSIVE RoutesFrom(_, _, _)
RoutesFrom(g, p, t) ==
    IF p[Len(p)] = t THEN {p}
    ELSE UNION {RoutesFrom(g, Append(p, n), t) : n \in DOMAIN g[p[Len(p)]] \ Range(p)}

RECURSIVE RouteCost(_, _, _, _)
RouteCost(g, p, weight, i) ==
    IF i >= Len(p) THEN 0
    ELSE g[p[i]][p[i + 1]][weight] + RouteCost(g, p, weight, i + 1)

\* C22: on a directed graph with non-negative weights custom_dijkstra
\* returns a node list that starts at the source, ends at the target,
\* follows existing directed edges and has the least total of the named
\* weight attribute over all paths from the source to the target; it returns
\* None when the target cannot be reached.
C22_CustomDijkstra ==
    op = "custom_dijkstra" =>
        LET g == args[1]
            routes == RoutesFrom(g, <<args[2]>>, args[3])
        IN /\ ret.raised = None
           /\ ret.found = (routes # {})
           /\ ret.found =>
                 /\ ret.path[1] = args[2]
                 /\ ret.path[Len(ret.path)] = args[3]
                 /\ \A i \in 1..(Len(ret.path) - 1) :
                       ret.path[i + 1] \in DOMAIN g[ret.path[i]]
                 /\ \A p \in routes :
                       RouteCost(g, ret.path, args[4], 1) <= RouteCost(g, p, args[4], 1)

\* The route returned goes through a third node although a direct edge
\* exists, because the direct edge costs more.
C22_Witness ==
    /\ op = "custom_dijkstra"
    /\ ret.found
    /\ Len(ret.path) = 3
    /\ args[3] \in DOMAIN args[1][args[2]]
    /\ RouteCost(args[1], ret.path, args[4], 1) < args[1][args[2]][args[3]][args[4]]

\* The target cannot be reached and None is returned.
C22_WitnessNone ==
    /\ op = "custom_dijkstra"
    /\ ~ret.found
    /\ DOMAIN args[1][args[2]] # {}

-----------------------------------------------------------------------------
(* get_nearest_hospital.  A hospital point is [name, y, x] (geometry.y is  *)
(* the latitude) and the origin is <<lat, lon>>, on an integer grid.       *)

\* osmnx.distance.euclidean, squared: the code only compares distances with
\* each other and with 0, and the square root keeps both comparisons.
Euclidean(y1, x1, y2, x2) ==
    (x1 - x2) * (x1 - x2) + (y1 - y2) * (y1 - y2)

\* for hospital in hospital_points: the loop's locals after the hospitals
\* from i on.  closest_hospital is <<>> while it is unbound.
RECURSIVE ClosestFrom(_, _, _, _, _)
ClosestFrom(hospital_points, i, origin, min_distance, closest_hospital) ==
    IF i > Len(hospital_points) THEN closest_hospital
    ELSE LET hospital == hospital_points[i]
             distance == Euclidean(hospital.y, hospital.x, origin[1], origin[2])
         IN IF min_distance = 0 \/ distance < min_distance
            THEN ClosestFrom(hospital_points, i + 1, origin, distance, <<hospital>>)
            ELSE ClosestFrom(hospital_points, i + 1, origin, min_distance,
                             closest_hospital)

\* [raised, location, name]; reading the unbound closest_hospital raises.
GetNearestHospital(hospital_points, origin) ==
    LET closest_hospital == ClosestFrom(hospital_points, 1, origin, 0, <<>>)
    IN IF closest_hospital = <<>>
       THEN [raised |-> "UnboundLocalError", location |-> <<>>, name |-> None]
       ELSE [raised |-> None,
             location |-> <<closest_hospital[1].y, closest_hospital[1].x>>,
             name |-> closest_hospital[1].name]

get_nearest_hospital ==
    /\ op = "init"
    /\ op' = "get_nearest_hospital"
    /\ ret' = GetNearestHospital(args[1], args[2])
    /\ UNCHANGED <<graph, node_positions, hospitals, args, assigned>>

MaxCoord == 1
MaxPoints == 3

Coords == 0..MaxCoord
HospitalNames == <<"Hospital A", "Hospital B", "Hospital C", "Hospital D">>

\* Every list of at most MaxPoints hospitals, named in list order.
HospitalPoints ==
    UNION {{[i \in 1..k |-> [name |-> HospitalNames[i], y |-> at[i][1], x |-> at[i][2]]] :
                at \in [1..k -> Coords \X Coords]} : k \in 0..MaxPoints}

InitPoints ==
    /\ graph = EmptyGraph.graph
    /\ node_positions = EmptyGraph.node_positions
    /\ hospitals = EmptyGraph.hospitals
    /\ assigned = <<>>
    /\ op = "init"
    /\ args \in HospitalPoints \X (Coords \X Coords)
    /\ ret = None

NextPoints == get_nearest_hospital

SpecPoints == InitPoints /\ [][NextPoints]_vars

\* C23: for every non-empty list of hospital points and every origin, an
\* origin at one of the hospitals included, get_nearest_hospital returns
\* the name and (lat, lon) of a hospital whose distance to the origin is the
\* smallest in the list.
C23_NearestPoint ==
    (op = "get_nearest_hospital" /\ Len(args[1]) > 0) =>
        /\ ret.raised = None
        /\ \E i \in 1..Len(args[1]) :
              /\ ret.name = args[1][i].name
              /\ ret.location = <<args[1][i].y, args[1][i].x>>
              /\ \A j \in 1..Len(args[1]) :
                    Euclidean(args[1][i].y, args[1][i].x, args[2][1], args[2][2])
                        <= Euclidean(args[1][j].y, args[1][j].x, args[2][1], args[2][2])

\* C24: get_nearest_hospital with an empty hospital list returns the pair
\* (None, None) and does not raise.
C24_EmptyList ==
    (op = "get_nearest_hospital" /\ Len(args[1]) = 0) =>
        /\ ret.raised = None
        /\ ret.location = <<>>
        /\ ret.name = None

-----------------------------------------------------------------------------
(* find_nearest_available_hospital step by step, one loop iteration per    *)
(* step, on networks with zero-weight edges and edges from a node to       *)
(* itself.  op is the loop the call is in and ret holds its locals, and    *)
(* then what it returned.                                                  *)

\* One iteration of dijkstra's while loop: pop, skip a stale entry or relax
\* the neighbours.
DijkstraIteration(g, st) ==
    LET top == HeapMin(st.priority_queue)
        current_distance == top[1]
        current_node == top[2]
        popped == [st EXCEPT !.priority_queue = @ \ {top}]
    IN IF current_distance > st.distances[current_node]
       THEN popped
       ELSE Relax(g[current_node], 1, current_node, current_distance, popped)

RECURSIVE Reverse(_)
Reverse(seq) ==
    IF seq = <<>> THEN <<>> ELSE Append(Reverse(Tail(seq)), Head(seq))

dijkstra_while ==
    /\ op = "dijkstra:while"
    /\ ret.priority_queue # {}
    /\ ret' = DijkstraIteration(graph, ret)
    /\ UNCHANGED <<graph, node_positions, hospitals, op, args, assigned>>

\* dijkstra returns with its queue empty; the nearest hospital is chosen.
dijkstra_return ==
    /\ op = "dijkstra:while"
    /\ ret.priority_queue = {}
    /\ LET n == Nearest(GetAvailableHospitals(hospitals), 1, ret.distances,
                        None, Infinity)
       IN IF n.nearest_hospital = None
          THEN op' = "find_nearest_available_hospital" /\ ret' = NotFound
          ELSE /\ op' = "find:while"
               /\ ret' = [predecessors |-> ret.predecessors,
                          nearest_hospital |-> n.nearest_hospital,
                          min_distance |-> n.min_distance,
                          path |-> <<>>,
                          current |-> n.nearest_hospital]
    /\ UNCHANGED <<graph, node_positions, hospitals, args, assigned>>

\* while current is not None: path.append(current);
\* current = predecessors[current]
find_while ==
    /\ op = "find:while"
    /\ ret.current # None
    /\ ret' = [ret EXCEPT !.path = Append(@, ret.current),
                          !.current = ret.predecessors[ret.current]]
    /\ UNCHANGED <<graph, node_positions, hospitals, op, args, assigned>>

\* path.reverse(); return nearest_hospital, path, min_distance
find_return ==
    /\ op = "find:while"
    /\ ret.current = None
    /\ op' = "find_nearest_available_hospital"
    /\ ret' = [hospital |-> ret.nearest_hospital,
               path |-> Reverse(ret.path),
               distance |-> ret.min_distance]
    /\ UNCHANGED <<graph, node_positions, hospitals, args, assigned>>

\* The networks: one id or both declared, in either order, each as a plain
\* node or as a hospital with one bed, and the three possible edges (two of
\* them from a node to itself) added in any order, each with a weight <<w>>
\* or, for <<>>, not at all.
Declarations ==
    {<<<<n1, Rank(n1), 0, h1, 1>>, <<n2, Rank(n2), 0, h2, 1>>>> :
         n1 \in BuildIds, n2 \in BuildIds, h1 \in BOOLEAN, h2 \in BOOLEAN}

EdgeOrders ==
    {o \in [1..3 -> {<<"A", "A">>, <<"A", "B">>, <<"B", "B">>}] :
         \A i, j \in 1..3 : o[i] = o[j] => i = j}

EdgeCalls ==
    {LET chosen == SelectSeq([i \in 1..3 |-> <<o[i][1], o[i][2], w[i]>>],
                             LAMBDA c : c[3] # <<>>)
     IN [i \in 1..Len(chosen) |-> <<chosen[i][1], chosen[i][2], chosen[i][3][1]>>] :
         o \in EdgeOrders, w \in [1..3 -> {<<>>} \cup {<<x>> : x \in Weights}]}

Networks ==
    {AddEdges(AddNodes(EmptyGraph, d, 1), e, 1) : d \in Declarations, e \in EdgeCalls}

\* A call of find_nearest_available_hospital(start_node) on one of the
\* networks, at dijkstra's while loop, or already returned when no hospital
\* is available or the origin is unknown.
InitLoops ==
    \E g \in Networks, start_node \in BuildIds \cup {Unknown} :
        /\ graph = g.graph
        /\ node_positions = g.node_positions
        /\ hospitals = g.hospitals
        /\ assigned = <<>>
        /\ args = <<start_node>>
        /\ IF GetAvailableHospitals(g.hospitals) = <<>>
              \/ start_node \notin DOMAIN g.graph
           THEN op = "find_nearest_available_hospital" /\ ret = NotFound
           ELSE /\ op = "dijkstra:while"
                /\ ret = [distances |->
                              [n \in DOMAIN g.graph |->
                                  IF n = start_node THEN 0 ELSE Infinity],
                          predecessors |-> [n \in DOMAIN g.graph |-> None],
                          priority_queue |-> {<<0, start_node>>}]

NextLoops ==
    \/ dijkstra_while
    \/ dijkstra_return
    \/ find_while
    \/ find_return

SpecLoops == InitLoops /\ [][NextLoops]_vars

\* A call runs to completion: a step of a running call is always taken.
FairLoops ==
    SpecLoops /\ WF_vars(dijkstra_while \/ dijkstra_return \/ find_while \/ find_return)

\* C25: on every network with non-negative weights, zero-weight edges,
\* zero-weight cycles and edges from a node to itself included, a running
\* call leaves dijkstra's loop with an empty priority queue and leaves the
\* backward walk over the predecessors, and the path returned starts at the
\* origin.
C25_Terminates ==
    /\ (op = "dijkstra:while") ~> (op = "dijkstra:while" /\ ret.priority_queue = {})
    /\ (op = "find:while") ~>
           (/\ op = "find_nearest_available_hospital"
            /\ ret.hospital # None
            /\ ret.path[1] = args[1]
            /\ ret.path[Len(ret.path)] = ret.hospital)

\* A call has returned a path of two nodes over a zero-weight edge, on a
\* network where both nodes also carry an edge to themselves.
C25_Witness ==
    /\ op = "find_nearest_available_hospital"
    /\ ret.hospital # None
    /\ Len(ret.path) = 2
    /\ ret.distance = 0
    /\ \A n \in BuildIds : n \in DOMAIN graph /\ IsEdge(graph, n, n)

-----------------------------------------------------------------------------
(* Signed weights: add_edge has no condition on its distance argument, so   *)
(* the callers' weights are drawn from both sides of zero.  The two ids are *)
(* declared as plain nodes or hospitals and joined, to each other and to    *)
(* themselves, by edges of any of these weights.  No search runs here: on   *)
(* an undirected edge of negative weight the loop of dijkstra lowers the    *)
(* two endpoints' distances in turn without end.                            *)

SignedWeights == (-MaxWeight)..MaxWeight

NextWeights ==
    \/ \E n \in BuildIds, h \in BOOLEAN, c \in Beds : add_node(n, Rank(n), 0, h, c)
    \/ \E u, v \in BuildIds, w \in SignedWeights : add_edge(u, v, w)

SpecWeights == Init /\ [][NextWeights]_vars

\* C26: every edge stored in the network has a non-negative weight in every
\* reachable state; a negative weight passed to add_edge does not end up in
\* any adjacency list.
C26_NonNegativeWeights ==
    \A u \in DOMAIN graph : \A i \in 1..Len(graph[u]) : graph[u][i][2] >= 0

-----------------------------------------------------------------------------
(* Emergencies handled one at a time, never released: the loop of          *)
(* test_multiple_emergencies and simulate_campus_emergency, run by a       *)
(* single handler on the sample map and on each of the small networks,     *)
(* with every node of the network as a possible emergency location.  A     *)
(* round is the find and, if a hospital was returned, the update.          *)

InitRounds ==
    \E g \in Networks \cup {create_sample_map} :
        /\ graph = g.graph
        /\ node_positions = g.node_positions
        /\ hospitals = g.hospitals
        /\ op = "init"
        /\ args = <<>>
        /\ ret = None
        /\ assigned = <<None>>

NextRounds ==
    \/ \E location \in DOMAIN graph : emergency_find(1, location)
    \/ emergency_commit(1)

SpecRounds == InitRounds /\ [][NextRounds]_vars

\* C27: in one-at-a-time use, the update that follows a find which returned
\* a hospital r returns True, raises r's occupancy by exactly 1, and leaves
\* r's capacity and every other hospital's occupancy and capacity as they
\* were; r then has room left or is exactly full.
C27_CommitAfterFind ==
    [][emergency_commit(1) =>
          LET r == HospitalIndex(hospitals, assigned[1])
          IN /\ op = "find_nearest_available_hospital"
             /\ ret.hospital = assigned[1]
             /\ ret' = TRUE
             /\ Len(hospitals') = Len(hospitals)
             /\ hospitals'[r].capacity = hospitals[r].capacity + 1
             /\ hospitals'[r].max_capacity = hospitals[r].max_capacity
             /\ hospitals'[r].capacity <= hospitals'[r].max_capacity
             /\ \A i \in 1..Len(hospitals) : i # r => hospitals'[i] = hospitals[i]]_vars

\* An update has just returned True on the sample map with one hospital
\* filled to its capacity by such updates and another admitted its first
\* patient and still having room.
C27_Witness ==
    /\ op = "update_hospital_capacity"
    /\ ret = TRUE
    /\ HospitalIds(hospitals) = {"H1", "H2", "H3"}
    /\ Hospital("H1").capacity = Hospital("H1").max_capacity
    /\ Hospital("H2").capacity = 1
    /\ Hospital("H2").max_capacity > 1

\* C29: for a fixed network and origin, while hospitals are only filled and
\* never released, the cost find_nearest_available_hospital returns for the
\* origin never decreases, infinity (nothing found) being the largest cost:
\* each update of the loop leaves the cost for every origin equal or higher.
C29_CostNeverDecreases ==
    [][emergency_commit(1) =>
          \A origin \in DOMAIN graph :
              FindNearestAvailableHospital(graph', hospitals', origin).distance >=
                  FindNearestAvailableHospital(graph, hospitals, origin).distance]_vars

\* On the sample map "H1" has been filled and the find from "A", whose
\* nearest hospital is "H1", returns a hospital farther away than "H1" is.
C29_Witness ==
    /\ op = "find_nearest_available_hospital"
    /\ args = <<"A">>
    /\ HospitalIds(hospitals) = {"H1", "H2", "H3"}
    /\ Hospital("H1").capacity = Hospital("H1").max_capacity
    /\ ret.hospital \in {"H2", "H3"}
    /\ ret.distance > Dijkstra(graph, "A").distances["H1"]

\* The nodes that can be reached from those in seen along stored edges.
RECURSIVE ReachableFrom(_, _)
ReachableFrom(g, seen) ==
    LET next == seen \cup UNION {Neighbors(g, n) : n \in seen}
    IN IF next = seen THEN seen ELSE ReachableFrom(g, next)

Connected(g) == \A n \in DOMAIN g : ReachableFrom(g, {n}) = DOMAIN g

RECURSIVE TotalOccupancy(_, _)
TotalOccupancy(hs, i) ==
    IF i > Len(hs) THEN 0 ELSE hs[i].capacity + TotalOccupancy(hs, i + 1)

RECURSIVE TotalCapacity(_, _)
TotalCapacity(hs, i) ==
    IF i > Len(hs) THEN 0 ELSE hs[i].max_capacity + TotalCapacity(hs, i + 1)

\* C30: in a connected network the loop of find and update, run from any
\* nodes of the network with no release, assigns exactly as many
\* emergencies as the capacities add up to: a find returns no hospital
\* exactly when the total occupancy has reached the sum of the capacities,
\* each update that follows a successful find raises the total occupancy by
\* exactly 1, and the total never exceeds the sum of the capacities.
C30_AssignsSumOfCapacities ==
    [][Connected(graph) =>
          /\ \A location \in DOMAIN graph :
                emergency_find(1, location) =>
                    (ret'.hospital = None <=>
                         TotalOccupancy(hospitals, 1) = TotalCapacity(hospitals, 1))
          /\ emergency_commit(1) =>
                TotalOccupancy(hospitals', 1) = TotalOccupancy(hospitals, 1) + 1
          /\ TotalOccupancy(hospitals', 1) <= TotalCapacity(hospitals', 1)
          /\ TotalCapacity(hospitals', 1) = TotalCapacity(hospitals, 1)]_vars

\* On the sample map, round after round has filled all three hospitals,
\* ten emergencies in all, and the find that follows returns no hospital.
C30_Witness ==
    /\ op = "find_nearest_available_hospital"
    /\ ret.hospital = None
    /\ args[1] \in DOMAIN graph
    /\ Len(hospitals) = 3
    /\ Connected(graph)
    /\ TotalOccupancy(hospitals, 1) = 10
    /\ TotalCapacity(hospitals, 1) = 10

\* A find on a network that is not connected returns no hospital although
\* a hospital has room: the connectedness is needed.
C30_WitnessDisconnected ==
    /\ op = "find_nearest_available_hospital"
    /\ ret.hospital = None
    /\ args[1] \in DOMAIN graph
    /\ ~Connected(graph)
    /\ TotalOccupancy(hospitals, 1) < TotalCapacity(hospitals, 1)

-----------------------------------------------------------------------------
(* interactive_gui.py: the "Run" button of the simple map tab.  The spin   *)
(* boxes are the handler's inputs: the three "max" boxes stay at the       *)
(* values setup_simple_map_tab gives them, the three "current" boxes hold  *)
(* whatever the user has entered, from 0 up to SpinMaximum (10 in the      *)
(* form), and the location is one of the entries of the combo box.         *)

SpinMaximum == 3

h_capacity == [h \in {"H1", "H2", "H3"} |-> CASE h = "H1" -> 2 [] h = "H2" -> 3 [] h = "H3" -> 5]

SpinValues == [{"H1", "H2", "H3"} -> 0..SpinMaximum]

\* hospitals[h]['max_capacity'] = h_capacity.value()
\* hospitals[h]['capacity'] = h_current.value()
SetFromSpinBoxes(hs, capacity, current) ==
    [i \in 1..Len(hs) |->
        [hs[i] EXCEPT !.max_capacity = capacity[hs[i].id],
                      !.capacity = current[hs[i].id]]]

run_simple_map(h_current, emergency_location) ==
    LET hs == SetFromSpinBoxes(hospitals, h_capacity, h_current)
    IN \E found \in {FindNearestAvailableHospital(graph, hs, emergency_location)} :
       /\ hospitals' =
              IF found.hospital # None
              THEN UpdateHospitalCapacity(hs, found.hospital, 1).hospitals
              ELSE hs
       /\ UNCHANGED <<graph, node_positions, assigned>>
       /\ op' = "run_simple_map"
       /\ args' = <<emergency_location>>
       /\ ret' = IF found.hospital # None
                 THEN [found |-> found, details |-> <<GetPathDetails(graph, found.path)>>]
                 ELSE [found |-> found, details |-> <<>>]

NextGui ==
    \E h_current \in SpinValues, emergency_location \in Emergencies :
        run_simple_map(h_current, emergency_location)

SpecGui == InitGrid /\ [][NextGui]_vars

\* C28: in every state the handler run_simple_map reaches, every hospital
\* has 0 <= occupied <= capacity.
C28_OccupancyBoundsGui ==
    \A i \in 1..Len(hospitals) :
        0 <= hospitals[i].capacity /\ hospitals[i].capacity <= hospitals[i].max_capacity
====
